---- MODULE Spec2Model ----
(***************************************************************************)
(* A model of two codecs of ryu:                                           *)
(*   ryu/lib/packet/ipv6.py   the IPv6 header, its chain of extension      *)
(*                            headers and their options;                   *)
(*   ryu/ofproto/nx_match.py  the NXM match fields, their registry, the    *)
(*                            NXM header word and the match serializer.    *)
(* Bytes are the integers 0..255, a buffer is a sequence of bytes, and     *)
(* offsets are Python's (0-based).  Python's None is the integer -1, which *)
(* no byte, type code or length equals; a None option value is << -1 >>.   *)
(***************************************************************************)
EXTENDS Integers, Sequences, FiniteSets, TLC

VARIABLES
    \* ---- ipv6.py ----
    pc,          \* where the IPv6 codec stands: idle, built, wire, ext_loop,
                 \* opt_loop, done, echo, fail
    args,        \* the arguments ipv6.__init__ was called with by the caller
    h,           \* the header the caller constructed (None when parsing raw bytes)
    buf,         \* the buffer handed to ipv6.parser
    fixed,       \* ipv6.parser: the unpacked fixed fields
    offset,      \* ipv6.parser: offset
    last,        \* ipv6.parser: last
    ext_hdrs,    \* ipv6.parser: ext_hdrs
    starts,      \* history: the offset each parsed extension header began at
    opt,         \* opt_header.parser: its locals nxt, len_, data_len, data, size
    msg,         \* ipv6.parser: the header returned
    ptype,       \* ipv6.parser: the packet type returned
    payload,     \* ipv6.parser: the payload slice returned
    out,         \* the bytes of serialize() applied to msg
    \* ---- nx_match.py ----
    npc,         \* which nx_match operation ran last
    mf_fields,   \* _MF_FIELDS
    first_reg,   \* history: the class whose registration first wrote each identifier
    nin,         \* the arguments of the last nx_match operation
    nres         \* its result

ipv6_vars == <<pc, args, h, buf, fixed, offset, last, ext_hdrs, starts, opt,
               msg, ptype, payload, out>>
nxm_vars == <<npc, mf_fields, first_reg, nin, nres>>
vars == <<pc, args, h, buf, fixed, offset, last, ext_hdrs, starts, opt,
          msg, ptype, payload, out, npc, mf_fields, first_reg, nin, nres>>

-----------------------------------------------------------------------------
(* Python and struct *)

None == -1
NoneData == << None >>

Min(a, b) == IF a < b THEN a ELSE b
Max(a, b) == IF a < b THEN b ELSE a

RECURSIVE Pow2(_)
Pow2(n) == IF n = 0 THEN 1 ELSE 2 * Pow2(n - 1)

\* x << n and x >> n on non-negative integers
Shl(x, n) == x * Pow2(n)
Shr(x, n) == x \div Pow2(n)

RECURSIVE BitAnd(_, _)
BitAnd(a, b) ==
    IF a = 0 \/ b = 0 THEN 0
    ELSE (IF a % 2 = 1 /\ b % 2 = 1 THEN 1 ELSE 0) + 2 * BitAnd(a \div 2, b \div 2)

RECURSIVE BitOr(_, _)
BitOr(a, b) ==
    IF a = 0 THEN b
    ELSE IF b = 0 THEN a
    ELSE (IF a % 2 = 1 \/ b % 2 = 1 THEN 1 ELSE 0) + 2 * BitOr(a \div 2, b \div 2)

Zeros(n) == [i \in 1..n |-> 0]

\* buf[a:b] and buf[a:], with Python's clipping of both ends to the length
PySlice(b, from, to) == SubSeq(b, Min(from, Len(b)) + 1, Min(to, Len(b)))
PyTail(b, from) == SubSeq(b, Min(from, Len(b)) + 1, Len(b))

\* struct.unpack_from(fmt, buf, off) raises struct.error unless the buffer
\* holds calcsize(fmt) bytes from off on.
CanUnpackZeroPadded(b, off, n) == TRUE
CanUnpack(b, off, n) == Len(b) - off >= n

\* The byte at a 0-based offset.  Reads are guarded by CanUnpack; the value
\* for an offset past the end is what a zero-padding reader would see.
ByteAt(b, off) == IF off < Len(b) THEN b[off + 1] ELSE 0

\* big-endian unsigned integers of 2 and 4 bytes ('!H', '!I')
UnpackU16(b, off) == ByteAt(b, off) * 256 + ByteAt(b, off + 1)
UnpackU32(b, off) == UnpackU16(b, off) * 65536 + UnpackU16(b, off + 2)
PackU16(v) == << v \div 256, v % 256 >>
PackU32(v) == PackU16(v \div 65536) \o PackU16(v % 65536)

\* struct.pack('%ds' % n, data): data cut or zero-filled to n bytes
PackS(n, data) == [i \in 1..n |-> IF i <= Len(data) THEN data[i] ELSE 0]

-----------------------------------------------------------------------------
(* ryu.ofproto.inet, ryu.lib.addrconv and the classes registered with ipv6 *)

IPPROTO_HOPOPTS == 0
IPPROTO_TCP == 6
IPPROTO_ICMPV6 == 58
IPPROTO_DSTOPTS == 60

\* the textual addresses used here and their 16-byte binary forms
AddrText == {1, 2}        \* '::1' and '::2'
TextToBin(t) == Zeros(15) \o << t >>
BinToText(b) == ByteAt(b, 15)

\* ipv6._IPV6_EXT_HEADER_TYPE after the module is loaded: hop_opts and
\* dst_opts, both opt_header, registered under their own TYPE.
ExtHeaderTypes == {IPPROTO_HOPOPTS, IPPROTO_DSTOPTS}
ExtHeaderGet(type_) == IF type_ \in ExtHeaderTypes THEN type_ ELSE None

\* packet_base's registry after lines 142-143
PacketTypes == {IPPROTO_ICMPV6, IPPROTO_TCP}
GetPacketType(type_) == IF type_ \in PacketTypes THEN type_ ELSE None

-----------------------------------------------------------------------------
(* ipv6.py: option *)

IPV6_MIN_LEN == 40       \* ipv6._MIN_LEN
OPT_HDR_MIN_LEN == 2     \* opt_header._MIN_LEN
FIX_SIZE == 8            \* opt_header._FIX_SIZE
OPTION_MIN_LEN == 2      \* option._MIN_LEN

Option(type_, len_, data) == [type_ |-> type_, len_ |-> len_, data |-> data]

\* option.__len__
OptionLenNoHeader(o) == o.len_
OptionLen(o) == OPTION_MIN_LEN + o.len_

\* option.parser succeeds on buf[off:]
OptionCanParse(b, off) ==
    /\ CanUnpack(b, off, 1)
    /\ ByteAt(b, off) # 0 =>
          /\ CanUnpack(b, off, OPTION_MIN_LEN)
          /\ ByteAt(b, off + 1) # 0 =>
                CanUnpack(b, off + OPTION_MIN_LEN, ByteAt(b, off + 1))

\* option.parser(buf[off:])
OptionParser(b, off) ==
    LET type_ == ByteAt(b, off) IN
    IF type_ = 0 THEN Option(type_, -1, NoneData)
    ELSE LET len_ == ByteAt(b, off + 1) IN
         IF len_ # 0
         THEN Option(type_, len_,
                     PySlice(b, off + OPTION_MIN_LEN, off + OPTION_MIN_LEN + len_))
         ELSE Option(type_, len_, NoneData)

\* option.serialize
OptionSerialize(o) ==
    IF o.type_ = 0 THEN << o.type_ >>
    ELSE IF o.len_ = 0 THEN << o.type_, o.len_ >>
    ELSE << o.type_, o.len_ >> \o PackS(o.len_, o.data)

-----------------------------------------------------------------------------
(* ipv6.py: header and opt_header *)

\* an instance of a registered opt_header subclass
OptHeader(TYPE, nxt, size, data) ==
    [TYPE |-> TYPE, nxt |-> nxt, size |-> size, data |-> data]

\* opt_header.__len__
OptHeaderLen(hdr) == FIX_SIZE + hdr.size

\* the truth value of a header object is that of its __len__
Truthy(hdr) == OptHeaderLen(hdr) # 0

RECURSIVE SerializeOptions(_)
SerializeOptions(data) ==
    IF data = << >> THEN << >>
    ELSE OptionSerialize(Head(data)) \o SerializeOptions(Tail(data))

\* opt_header.serialize
OptHeaderSerialize(hdr) == << hdr.nxt, hdr.size >> \o SerializeOptions(hdr.data)

-----------------------------------------------------------------------------
(* ipv6.py: ipv6 *)

\* a faulty variant of the loop below: a later header is given the header's
\* current nxt (already the first header's TYPE) instead of last_hdr.nxt
RECURSIVE InitLoopFromSelf(_, _, _, _)
InitLoopFromSelf(hdrs, i, self_nxt, li) ==
    IF i > Len(hdrs) THEN [nxt |-> self_nxt, ext_hdrs |-> hdrs]
    ELSE IF li # 0 /\ FIX_SIZE + hdrs[li].size # 0
         THEN InitLoopFromSelf([hdrs EXCEPT ![i].nxt = self_nxt,
                                            ![li].nxt = hdrs[i].TYPE],
                               i + 1, self_nxt, i)
         ELSE InitLoopFromSelf([hdrs EXCEPT ![i].nxt = self_nxt],
                               i + 1, hdrs[i].TYPE, i)

\* the loop of ipv6.__init__ over ext_hdrs; the headers are distinct objects
\* changed in place, li is the index of last_hdr (0 while it is None)
RECURSIVE InitLoop(_, _, _, _)
InitLoop(hdrs, i, self_nxt, li) ==
    IF i > Len(hdrs) THEN [nxt |-> self_nxt, ext_hdrs |-> hdrs]
    ELSE IF li # 0 /\ Truthy(hdrs[li])
         THEN InitLoop([hdrs EXCEPT ![i].nxt = hdrs[li].nxt,
                                    ![li].nxt = hdrs[i].TYPE],
                       i + 1, self_nxt, i)
         ELSE InitLoop([hdrs EXCEPT ![i].nxt = self_nxt],
                       i + 1, hdrs[i].TYPE, i)

\* ipv6.__init__; f holds the arguments that are stored as they are
Ipv6Init(f, nxt, src, dst, hdrs) ==
    LET linked == IF hdrs # << >> THEN InitLoop(hdrs, 1, nxt, 0)
                  ELSE [nxt |-> nxt, ext_hdrs |-> hdrs]
    IN [version |-> f.version, traffic_class |-> f.traffic_class,
        flow_label |-> f.flow_label, payload_length |-> f.payload_length,
        nxt |-> linked.nxt, hop_limit |-> f.hop_limit, src |-> src, dst |-> dst,
        ext_hdrs |-> linked.ext_hdrs]

RECURSIVE SerializeExtHdrs(_)
SerializeExtHdrs(hdrs) ==
    IF hdrs = << >> THEN << >>
    ELSE OptHeaderSerialize(Head(hdrs)) \o SerializeExtHdrs(Tail(hdrs))

\* ipv6.serialize
Ipv6Serialize(m) ==
    LET v_tc_flow == BitOr(BitOr(Shl(m.version, 28), Shl(m.traffic_class, 20)),
                           Shl(m.flow_label, 12))
    IN PackU32(v_tc_flow) \o PackU16(m.payload_length)
         \o << m.nxt, m.hop_limit >> \o TextToBin(m.src) \o TextToBin(m.dst)
         \o SerializeExtHdrs(m.ext_hdrs)

\* ipv6.__len__
RECURSIVE ExtHdrsLen(_)
ExtHdrsLen(hdrs) ==
    IF hdrs = << >> THEN 0 ELSE OptHeaderLen(Head(hdrs)) + ExtHdrsLen(Tail(hdrs))
Ipv6Len(m) == IPV6_MIN_LEN + ExtHdrsLen(m.ext_hdrs)

\* the payload slice ipv6.parser returns
PayloadToEnd(b, off, payload_length) == PyTail(b, off)
Payload(b, off, payload_length) == PySlice(b, off, off + payload_length)

\* the fixed fields ipv6.parser unpacks from the first 40 bytes
UnpackFixed(b) ==
    LET v_tc_flow == UnpackU32(b, 0) IN
    [version |-> Shr(v_tc_flow, 28),
     traffic_class |-> BitAnd(Shr(v_tc_flow, 20), 255),
     flow_label |-> BitAnd(v_tc_flow, 1048575),
     payload_length |-> UnpackU16(b, 4),
     nxt |-> ByteAt(b, 6),
     hop_limit |-> ByteAt(b, 7),
     src |-> PySlice(b, 8, 24),
     dst |-> PySlice(b, 24, 40)]

-----------------------------------------------------------------------------
(* nx_match.py: numbers, struct formats and ofproto_parser.msg_pack_into *)

\* A field value or mask is held as its big-endian 16-bit limbs, one limb
\* for a '!H' field and four for a '!Q' field, so that 64-bit numbers stay
\* exact.  (1 << n_bits) - 1 is then n_bits / 16 limbs of 0xffff.
AllOnes(n_bits) == [i \in 1..(n_bits \div 16) |-> 65535]
IsZero(v) == \A i \in 1..Len(v) : v[i] = 0

MF_PACK_STRING_BE64 == "!Q"
MF_PACK_STRING_BE16 == "!H"
NXM_HEADER_PACK_STRING == "!I"
CalcSize(pack_str) ==
    CASE pack_str = "!Q" -> 8
      [] pack_str = "!H" -> 2
      [] pack_str = "!I" -> 4

\* struct.pack of a '!H' or '!Q' value: each limb gives two bytes
PackLimbs(v) ==
    [i \in 1..(2 * Len(v)) |->
        IF i % 2 = 1 THEN v[(i + 1) \div 2] \div 256 ELSE v[i \div 2] % 256]

\* ofproto_parser.msg_pack_into(fmt, buf, offset, ...): the packed bytes are
\* written at offset; a buffer that ends before them is first grown with
\* zero bytes
MsgPackInto(b, off, bytes) ==
    LET need == off + Len(bytes)
        grown == IF Len(b) < need THEN b \o Zeros(need - Len(b)) ELSE b
    IN [i \in 1..Len(grown) |->
           IF i > off /\ i <= need THEN bytes[i - off] ELSE grown[i]]

UINT64_MAX == AllOnes(64)
FWW_IN_PORT == Shl(1, 0)
FWW_ALL == Shl(1, 13) - 1

\* ofproto_v1_0: nxm_header(vendor, field, length) and nxm_header_w
NXM_OF_IN_PORT == 2            \* 0x00000002
NXM_NX_TUN_ID == 73736         \* 0x00012008
NXM_NX_TUN_ID_W == 74000       \* 0x00012110

-----------------------------------------------------------------------------
(* nx_match.py: the field registry *)

\* the classes that register themselves, their nxm_headers and what their
\* make() passes to MFField
MFClasses == {"MFInPort", "MFTunId", "MFOther"}
PackStrOf(cls) == IF cls = "MFTunId" THEN MF_PACK_STRING_BE64 ELSE MF_PACK_STRING_BE16

IsRegistered(fields, nxm_header) == nxm_header \in DOMAIN fields

\* a faulty variant of the decorator below: without the check for an
\* identifier that is present already
RECURSIVE RegisterMakeOverwrites(_, _, _)
RegisterMakeOverwrites(fields, cls, nxm_headers) ==
    IF nxm_headers = NoneData THEN [fields |-> fields, ok |-> FALSE]
    ELSE IF nxm_headers = << >> THEN [fields |-> fields, ok |-> TRUE]
    ELSE RegisterMakeOverwrites(
             [k \in DOMAIN fields \cup {Head(nxm_headers)} |->
                 IF k = Head(nxm_headers) THEN cls ELSE fields[k]],
             cls, Tail(nxm_headers))

\* _register_make(cls): every identifier of cls.nxm_headers in turn; an
\* assert that fails ends the call and keeps what it had written before
RECURSIVE RegisterMake(_, _, _)
RegisterMake(fields, cls, nxm_headers) ==
    IF nxm_headers = NoneData THEN [fields |-> fields, ok |-> FALSE]
    ELSE IF nxm_headers = << >> THEN [fields |-> fields, ok |-> TRUE]
    ELSE IF IsRegistered(fields, Head(nxm_headers))
    THEN [fields |-> fields, ok |-> FALSE]
    ELSE RegisterMake(
             [k \in DOMAIN fields \cup {Head(nxm_headers)} |->
                 IF k = Head(nxm_headers) THEN cls ELSE fields[k]],
             cls, Tail(nxm_headers))

\* MFField.__init__
MFField(pack_str) ==
    [pack_str |-> pack_str, n_bytes |-> CalcSize(pack_str),
     n_bits |-> CalcSize(pack_str) * 8]

NoField == [cls |-> "None", mf |-> MFField(MF_PACK_STRING_BE16)]

\* mf_from_nxm_header: None, or what the registered make() returns
MfFromNxmHeader(fields, nxm_header) ==
    IF ~IsRegistered(fields, nxm_header) THEN NoField
    ELSE [cls |-> fields[nxm_header], mf |-> MFField(PackStrOf(fields[nxm_header]))]

\* _MF_FIELDS once nx_match is loaded: MFInPort and MFTunId have registered
LoadedFields ==
    RegisterMake(RegisterMake(<< >>, "MFInPort", << NXM_OF_IN_PORT >>).fields,
                 "MFTunId", << NXM_NX_TUN_ID, NXM_NX_TUN_ID_W >>).fields

-----------------------------------------------------------------------------
(* nx_match.py: MFField *)

\* MFField._put; a put gives the buffer as written and the length returned
MFPut(mf, b, off, value) ==
    [buf |-> MsgPackInto(b, off, PackLimbs(value)), len |-> mf.n_bytes]

\* MFField.putw
MFPutw(mf, b, off, value, mask) ==
    LET first == MFPut(mf, b, off, value)
        second == MFPut(mf, first.buf, off + first.len, mask)
    IN [buf |-> second.buf, len |-> first.len + second.len]

\* MFField._is_all_ones
IsAllOnesOfNextWidth(mf, value) == value = AllOnes(mf.n_bits + 16)
IsAllOnes(mf, value) == value = AllOnes(mf.n_bits)

\* MFField.putm
MFPutm(mf, b, off, value, mask) ==
    IF IsZero(mask) THEN [buf |-> b, len |-> 0]
    ELSE IF IsAllOnes(mf, mask) THEN MFPut(mf, b, off, value)
    ELSE MFPutw(mf, b, off, value, mask)

\* the put of the registered classes: MFInPort packs rule.flow.in_port,
\* MFTunId packs rule.flow.tun_id under rule.wc.tun_id_mask
ClassPut(f, b, off, rule) ==
    IF f.cls = "MFTunId"
    THEN MFPutm(f.mf, b, off, rule.tun_id, rule.tun_id_mask)
    ELSE MFPut(f.mf, b, off, rule.in_port)

-----------------------------------------------------------------------------
(* nx_match.py: NXMatch and serialize_nxm_match *)

NXMVendor(header) == Shr(header, 16)
NXMField(header) == Shr(header, 9) % 127
NXMType(header) == Shr(header, 9) % 8388607
NXMHasmask(header) == BitAnd(Shr(header, 8), 1)
NXMLength(header) == BitAnd(header, 255)

\* NXMatch.put_header
PutHeader(header, b, off) ==
    [buf |-> MsgPackInto(b, off, PackU32(header)),
     len |-> CalcSize(NXM_HEADER_PACK_STRING)]

\* nxm_put; the caller has made sure the header is registered
NxmPut(fields, b, off, header, rule) ==
    LET hd == PutHeader(header, b, off)
        mf == MfFromNxmHeader(fields, header)
        body == ClassPut(mf, hd.buf, off + hd.len, rule)
    IN [buf |-> body.buf, len |-> hd.len + body.len]

\* round_up, with Python 2's integer division
RoundUpPastMultiple(length) == ((length + 8) \div 8) * 8
RoundUp(length) == ((length + 7) \div 8) * 8

\* serialize_nxm_match(rule, buf, offset).  A rule holds wc.wildcards,
\* wc.tun_id_mask (NoneData while the attribute is not set), flow.in_port
\* and flow.tun_id.  ok is FALSE when the call raises.
SerializeNxmMatch(fields, rule, b, old_offset) ==
    LET s1 == IF BitAnd(rule.wildcards, FWW_IN_PORT) = 0
              THEN NxmPut(fields, b, old_offset, NXM_OF_IN_PORT, rule)
              ELSE [buf |-> b, len |-> 0]
        off1 == old_offset + s1.len
    IN IF rule.tun_id_mask = NoneData
       THEN [ok |-> FALSE, buf |-> s1.buf, match_len |-> 0]
       ELSE LET s2 == IF ~IsZero(rule.tun_id_mask)
                      THEN NxmPut(fields, s1.buf, off1,
                                  IF rule.tun_id_mask = UINT64_MAX
                                  THEN NXM_NX_TUN_ID ELSE NXM_NX_TUN_ID_W,
                                  rule)
                      ELSE [buf |-> s1.buf, len |-> 0]
                off2 == off1 + s2.len
                pad_len == RoundUp(off2) - off2
            IN [ok |-> TRUE,
                buf |-> MsgPackInto(s2.buf, off2, Zeros(pad_len)),
                match_len |-> off2 - old_offset]


-----------------------------------------------------------------------------
(* The inputs of the IPv6 codec *)

MaxHdrs == 2       \* extension headers a caller passes to ipv6.__init__
MaxTail == 9       \* bytes that follow the fixed header in a received buffer

SeqsUpTo(S, n) == UNION {[1..k -> S] : k \in 0..n}

\* option lists that fill an options header exactly, with its size field:
\* one option with a value; two pad-one options and two options without a
\* value; one option of 12 bytes in a header of size 8
BodyValue == [size |-> 0, data |-> << Option(1, 4, <<1, 2, 3, 4>>) >>]
BodyPads ==
    [size |-> 0, data |-> << Option(0, -1, NoneData), Option(0, -1, NoneData),
                             Option(5, 0, NoneData), Option(1, 0, NoneData) >>]
BodyLong ==
    [size |-> 8, data |-> << Option(1, 12, <<1, 2, 3, 4, 5, 6, 7, 8, 9, 10, 11, 12>>) >>]

\* extension header objects as a caller holds them before construction:
\* fresh ones (nxt is None) and ones that carry a nxt from earlier use
HdrPool ==
    { OptHeader(t, None, b.size, b.data) :
        t \in ExtHeaderTypes, b \in {BodyValue, BodyLong} }
      \cup { OptHeader(t, IPPROTO_HOPOPTS, BodyPads.size, BodyPads.data) :
               t \in ExtHeaderTypes }

UpperTypes == {IPPROTO_TCP, IPPROTO_ICMPV6}

FixedArgs ==
    { [version |-> 6, traffic_class |-> 0, flow_label |-> fl,
       payload_length |-> pl, hop_limit |-> 64] :
        fl \in {0, 1}, pl \in {0, 40} }

\* received buffers: a fixed header cut anywhere, or a whole one and a tail
RawFixed(word, plen, nxt) ==
    PackU32(word) \o PackU16(plen) \o << nxt, 64 >> \o TextToBin(1) \o TextToBin(2)

RawHeads ==
    { RawFixed(1610612736, 0, IPPROTO_HOPOPTS),          \* 0x60000000
      RawFixed(1610612737, 3, IPPROTO_HOPOPTS),          \* flow label 1
      RawFixed(1878002364, 3, IPPROTO_TCP) }             \* 0x6ff00abc

RawTails ==
    SeqsUpTo({0, 1}, MaxTail)
      \cup { << n, 8 >> \o t : n \in {1, IPPROTO_DSTOPTS}, t \in SeqsUpTo({0, 1}, 3) }

RawBufs ==
    { SubSeq(RawFixed(1610612736, 0, IPPROTO_HOPOPTS), 1, n) : n \in 0..(IPV6_MIN_LEN - 1) }
      \cup { hd \o t : hd \in RawHeads, t \in RawTails }

-----------------------------------------------------------------------------
(* The IPv6 codec as a state machine *)

NoOpt == [buf |-> << >>, cls |-> None, nxt |-> None, len_ |-> None,
          data_len |-> 0, data |-> << >>, size |-> 0]
NoFixed == [version |-> None, traffic_class |-> None, flow_label |-> None,
            payload_length |-> None, nxt |-> None, hop_limit |-> None,
            src |-> << >>, dst |-> << >>]
NoMsg == [version |-> None, traffic_class |-> None, flow_label |-> None,
          payload_length |-> None, nxt |-> None, hop_limit |-> None,
          src |-> None, dst |-> None, ext_hdrs |-> << >>]
NoArgs == [nxt |-> None, ext_hdrs |-> << >>]

InitIPv6 ==
    /\ pc = "idle"
    /\ args = NoArgs
    /\ h = NoMsg
    /\ buf = << >>
    /\ fixed = NoFixed
    /\ offset = 0
    /\ last = None
    /\ ext_hdrs = << >>
    /\ starts = << >>
    /\ opt = NoOpt
    /\ msg = NoMsg
    /\ ptype = None
    /\ payload = << >>
    /\ out = << >>

InitNXMIdle ==
    /\ npc = "off"
    /\ mf_fields = << >>
    /\ first_reg = << >>
    /\ nin = << >>
    /\ nres = << >>

\* a caller constructs a header: ipv6(version, ..., nxt, ..., ext_hdrs)
Construct ==
    /\ pc = "idle"
    /\ \E f \in FixedArgs, u \in UpperTypes, hs \in SeqsUpTo(HdrPool, MaxHdrs) :
          /\ args' = [nxt |-> u, ext_hdrs |-> hs]
          /\ h' = Ipv6Init(f, u, 1, 2, hs)
    /\ pc' = "built"
    /\ UNCHANGED nxm_vars
    /\ UNCHANGED <<buf, fixed, offset, last, ext_hdrs, starts, opt, msg, ptype,
                   payload, out>>

\* the header is serialized and the bytes handed to the parser
Serialize ==
    /\ pc = "built"
    /\ buf' = Ipv6Serialize(h)
    /\ pc' = "wire"
    /\ UNCHANGED nxm_vars
    /\ UNCHANGED <<args, h, fixed, offset, last, ext_hdrs, starts, opt, msg,
                   ptype, payload, out>>

\* bytes arrive from the wire
Receive ==
    /\ pc = "idle"
    /\ \E b \in RawBufs : buf' = b
    /\ pc' = "wire"
    /\ UNCHANGED nxm_vars
    /\ UNCHANGED <<args, h, fixed, offset, last, ext_hdrs, starts, opt, msg,
                   ptype, payload, out>>

\* ipv6.parser, lines 98-106: the fixed header
ParseFixed ==
    /\ pc = "wire"
    /\ IF CanUnpack(buf, 0, IPV6_MIN_LEN)
       THEN /\ fixed' = UnpackFixed(buf)
            /\ offset' = IPV6_MIN_LEN
            /\ last' = UnpackFixed(buf).nxt
            /\ ext_hdrs' = << >>
            /\ pc' = "ext_loop"
       ELSE /\ pc' = "fail"
            /\ UNCHANGED <<fixed, offset, last, ext_hdrs>>
    /\ UNCHANGED nxm_vars
    /\ UNCHANGED <<args, h, buf, starts, opt, msg, ptype, payload, out>>

\* ipv6.parser, lines 108-111 and opt_header.parser, lines 190-193: the type
\* is registered, and the header's parser starts on buf[offset:]
ExtLoopEnter ==
    /\ pc = "ext_loop"
    /\ ExtHeaderGet(last) # None
    /\ LET b == PyTail(buf, offset) IN
       IF CanUnpack(b, 0, OPT_HDR_MIN_LEN)
       THEN /\ opt' = [buf |-> b, cls |-> ExtHeaderGet(last),
                       nxt |-> ByteAt(b, 0), len_ |-> ByteAt(b, 1),
                       data_len |-> FIX_SIZE + ByteAt(b, 1),
                       data |-> << >>, size |-> OPT_HDR_MIN_LEN]
            /\ pc' = "opt_loop"
       ELSE /\ pc' = "fail"
            /\ UNCHANGED opt
    /\ UNCHANGED nxm_vars
    /\ UNCHANGED <<args, h, buf, fixed, offset, last, ext_hdrs, starts, msg,
                   ptype, payload, out>>

\* opt_header.parser, lines 194-202: one iteration of the option loop
OptLoop ==
    /\ pc = "opt_loop"
    /\ opt.size < opt.data_len
    /\ LET b == PyTail(opt.buf, opt.size) IN
       IF ~CanUnpack(b, 0, 1)
       THEN pc' = "fail" /\ UNCHANGED opt
       ELSE IF ByteAt(b, 0) = 0
       THEN /\ opt' = [opt EXCEPT !.data = Append(@, Option(0, -1, NoneData)),
                                  !.size = @ + 1]
            /\ pc' = "opt_loop"
       ELSE IF ~OptionCanParse(b, 0)
       THEN pc' = "fail" /\ UNCHANGED opt
       ELSE /\ opt' = [opt EXCEPT !.data = Append(@, OptionParser(b, 0)),
                                  !.size = @ + OptionLen(OptionParser(b, 0))]
            /\ pc' = "opt_loop"
    /\ UNCHANGED nxm_vars
    /\ UNCHANGED <<args, h, buf, fixed, offset, last, ext_hdrs, starts, msg,
                   ptype, payload, out>>

\* opt_header.parser, lines 203-205 and ipv6.parser, lines 112-114: the loop
\* is over, the header is built (size must be a multiple of 8) and appended
OptReturn ==
    /\ pc = "opt_loop"
    /\ ~(opt.size < opt.data_len)
    /\ IF opt.len_ % 8 = 0
       THEN LET hdr == OptHeader(opt.cls, opt.nxt, opt.len_, opt.data) IN
            /\ ext_hdrs' = Append(ext_hdrs, hdr)
            /\ starts' = Append(starts, offset)
            /\ offset' = offset + OptHeaderLen(hdr)
            /\ last' = hdr.nxt
            /\ pc' = "ext_loop"
       ELSE /\ pc' = "fail"
            /\ UNCHANGED <<ext_hdrs, starts, offset, last>>
    /\ UNCHANGED nxm_vars
    /\ UNCHANGED <<args, h, buf, fixed, opt, msg, ptype, payload, out>>

\* ipv6.parser, lines 108-110 and 115-121: the type is not registered, the
\* header is constructed and returned with the packet type and the payload
ExtLoopBreak ==
    /\ pc = "ext_loop"
    /\ ExtHeaderGet(last) = None
    /\ msg' = Ipv6Init(fixed, last, BinToText(fixed.src), BinToText(fixed.dst),
                       ext_hdrs)
    /\ ptype' = GetPacketType(last)
    /\ payload' = Payload(buf, offset, fixed.payload_length)
    /\ pc' = "done"
    /\ UNCHANGED nxm_vars
    /\ UNCHANGED <<args, h, buf, fixed, offset, last, ext_hdrs, starts, opt, out>>

\* the parsed header is serialized again
Reserialize ==
    /\ pc = "done"
    /\ out' = Ipv6Serialize(msg)
    /\ pc' = "echo"
    /\ UNCHANGED nxm_vars
    /\ UNCHANGED <<args, h, buf, fixed, offset, last, ext_hdrs, starts, opt,
                   msg, ptype, payload>>

NextIPv6 ==
    \/ Construct
    \/ Serialize
    \/ Receive
    \/ ParseFixed
    \/ ExtLoopEnter
    \/ OptLoop
    \/ OptReturn
    \/ ExtLoopBreak
    \/ Reserialize

InitCodec == InitIPv6 /\ InitNXMIdle
SpecIPv6 == InitCodec /\ [][NextIPv6]_vars

\* the parser is a sequential function: once called, each of its steps that
\* can be taken is taken
ParserStep == ParseFixed \/ ExtLoopEnter \/ OptLoop \/ OptReturn \/ ExtLoopBreak
FairSpecIPv6 == SpecIPv6 /\ WF_vars(ParserStep)

-----------------------------------------------------------------------------
(* Properties of the IPv6 codec *)

Parsed == pc \in {"done", "echo"}

\* m is the chain hs linked in front of the upper-layer type u
Linked(m, u, hs) ==
    /\ Len(m.ext_hdrs) = Len(hs)
    /\ IF hs = << >> THEN m.nxt = u
       ELSE /\ m.nxt = hs[1].TYPE
            /\ \A i \in 1..(Len(hs) - 1) : m.ext_hdrs[i].nxt = hs[i + 1].TYPE
            /\ m.ext_hdrs[Len(hs)].nxt = u
    /\ \A i \in 1..Len(hs) : /\ m.ext_hdrs[i].TYPE = hs[i].TYPE
                             /\ m.ext_hdrs[i].size = hs[i].size
                             /\ m.ext_hdrs[i].data = hs[i].data

\* C1: chain linkage.  A header constructed with upper-layer type U and the
\* extension headers H1..Hn has nxt = H1.TYPE, Hi.nxt = H(i+1).TYPE and
\* Hn.nxt = U, whatever nxt the Hi carried before; with no extension header
\* its nxt stays U.  This holds of the headers a caller constructs and of
\* the header the parser constructs from its chain and the last type it read.
C1_ChainLinkage ==
    /\ pc # "idle" /\ h # NoMsg => Linked(h, args.nxt, args.ext_hdrs)
    /\ Parsed => Linked(msg, last, ext_hdrs)

\* C1's case: two headers of different types, the first with a nxt of its own
C1_Witness ==
    /\ pc = "built"
    /\ Len(args.ext_hdrs) = 2
    /\ args.ext_hdrs[1].nxt = IPPROTO_HOPOPTS
    /\ args.ext_hdrs[1].TYPE = IPPROTO_HOPOPTS
    /\ args.ext_hdrs[2].TYPE = IPPROTO_DSTOPTS
    /\ h.ext_hdrs[1].nxt = IPPROTO_DSTOPTS
    /\ h.ext_hdrs[2].nxt = IPPROTO_TCP

\* C2: round trip.  Parsing the bytes of serialize(h) gives h back field for
\* field, and serializing the header parsed from a buffer gives the buffer's
\* header bytes back.
C2_RoundTrip ==
    /\ Parsed /\ h # NoMsg => msg = h
    /\ pc = "echo" => out = PySlice(buf, 0, Ipv6Len(msg))

\* the same round trip where the flow label is 0 and every options header of
\* the buffer holds options of 8 + size bytes in all: there it holds
ExactHeaders ==
    \A i \in 1..Len(ext_hdrs) :
        Len(OptHeaderSerialize(ext_hdrs[i])) = OptHeaderLen(ext_hdrs[i])
C2_RoundTripFlowZero ==
    /\ Parsed /\ h # NoMsg /\ h.flow_label = 0 => msg = h
    /\ pc = "echo" /\ fixed.flow_label = 0 /\ ExactHeaders
          => out = PySlice(buf, 0, Ipv6Len(msg))

\* C3 as claimed: the payload returned is exactly payload_length bytes long
C3_PayloadIsPayloadLength ==
    Parsed => Len(payload) = fixed.payload_length

\* C3 as amended: the payload returned is the bytes of the buffer from the
\* offset after the fixed header and the last extension header on, as many
\* as payload_length says and the buffer still holds; a buffer that ends at
\* that offset gives an empty payload.
C3_PayloadSlice ==
    Parsed =>
        /\ offset = Ipv6Len(msg)
        /\ offset <= Len(buf)
        /\ Len(payload) = Min(fixed.payload_length, Len(buf) - offset)
        /\ \A i \in 1..Len(payload) : payload[i] = buf[offset + i]

\* C3's case: the 40-byte buffer of a header with payload_length 40
C3_Witness ==
    /\ pc = "done"
    /\ h # NoMsg
    /\ Len(buf) = IPV6_MIN_LEN
    /\ fixed.payload_length = 40
    /\ msg.ext_hdrs = << >>
    /\ payload = << >>

\* C7: truncated input is rejected.  Past the fixed header the buffer holds
\* 40 bytes at least, and every extension header the parser has built lies
\* within the buffer with all of its declared 8 + size bytes: its nxt, its
\* size and its options are the buffer's bytes at its offset.
C7_TruncatedRejected ==
    pc \in {"ext_loop", "opt_loop", "done", "echo"} =>
        /\ Len(buf) >= IPV6_MIN_LEN
        /\ Len(starts) = Len(ext_hdrs)
        /\ \A i \in 1..Len(ext_hdrs) :
              LET hdr == ext_hdrs[i]
                  bytes == OptHeaderSerialize(hdr)
              IN /\ starts[i] + FIX_SIZE + hdr.size <= Len(buf)
                 /\ starts[i] + Len(bytes) <= Len(buf)
                 /\ bytes = SubSeq(buf, starts[i] + 1, starts[i] + Len(bytes))

\* C7's case: a buffer whose extension header declares 8 + 8 bytes and holds
\* fewer is refused
C7_Witness ==
    /\ pc = "fail"
    /\ Len(buf) >= IPV6_MIN_LEN + OPT_HDR_MIN_LEN
    /\ ext_hdrs = << >>
    /\ ByteAt(buf, IPV6_MIN_LEN + 1) = 8
    /\ Len(buf) - IPV6_MIN_LEN < FIX_SIZE + 8

\* C8: every options header the parser returns left the option loop with the
\* running offset at 8 + size exactly, which is its __len__ and the number of
\* bytes it serializes to.
C8_OptionLoopExact ==
    /\ pc = "opt_loop" /\ ~(opt.size < opt.data_len) /\ opt.len_ % 8 = 0
          => opt.size = FIX_SIZE + opt.len_
    /\ \A i \in 1..Len(ext_hdrs) :
          Len(OptHeaderSerialize(ext_hdrs[i])) = OptHeaderLen(ext_hdrs[i])

\* C10: the parser terminates.  Every call returns or fails; an iteration of
\* the option loop moves the running offset on by a byte at least, and an
\* iteration of the extension-header loop moves the offset on by 8 at least
\* and never past the end of the buffer.
C10_ParserTerminates ==
    /\ pc = "wire" ~> pc \in {"done", "fail"}
    /\ [][pc = "opt_loop" /\ pc' = "opt_loop" => opt'.size >= opt.size + 1]_vars
    /\ [][pc = "opt_loop" /\ pc' = "ext_loop" =>
             offset' >= offset + FIX_SIZE /\ offset' <= Len(buf)]_vars

\* C10's case: a parse that went twice round the extension-header loop and
\* more than once round the option loop has returned
C10_Witness ==
    /\ pc = "done"
    /\ Len(ext_hdrs) >= 2
    /\ \E i \in 1..Len(ext_hdrs) : Len(ext_hdrs[i].data) >= 2

-----------------------------------------------------------------------------
(* nx_match as a state machine: one call at a time, on a buffer of its own *)

MaxOff == 3        \* the offsets a caller writes at
MaxHeaders == 2    \* identifiers in a class's nxm_headers

Fill(n) == [i \in 1..n |-> 170]
NxBufs == {Fill(0), Fill(2), Fill(40)}
LimbVals == {0, 1, 65280, 65535}
ValuesOf(pack_str) == [1..(CalcSize(pack_str) \div 2) -> LimbVals]
SomeValues(pack_str) ==
    IF pack_str = MF_PACK_STRING_BE16 THEN {<<1>>, <<65534>>}
    ELSE {<<0, 0, 0, 1>>, <<4660, 22136, 39612, 57072>>}

Rules ==
    [wildcards : {FWW_ALL, FWW_ALL - FWW_IN_PORT, 0},
     in_port : SomeValues(MF_PACK_STRING_BE16),
     tun_id : SomeValues(MF_PACK_STRING_BE64),
     tun_id_mask : {Zeros(4), UINT64_MAX, <<0, 0, 0, 65280>>,
                    <<65535, 65535, 65535, 65534>>, NoneData}]

\* header words: the registered ones, the spec's example 0x00010203, the
\* words around a field number of 127, and one of every vendor and length
HeaderWords ==
    {NXM_OF_IN_PORT, NXM_NX_TUN_ID, NXM_NX_TUN_ID_W, 66051, 65024, 65279, 130560}
      \cup {Shl(v, 16) + Shl(f, 9) + l : v \in {0, 1, 32767}, f \in 0..7, l \in {0, 4, 255}}

WireIds == {NXM_OF_IN_PORT, NXM_NX_TUN_ID, NXM_NX_TUN_ID_W}

InitNXMLoaded ==
    /\ npc = "idle"
    /\ mf_fields = LoadedFields
    /\ first_reg = LoadedFields
    /\ nin = << >>
    /\ nres = << >>

InitRegistry ==
    /\ npc = "idle"
    /\ mf_fields = << >>
    /\ first_reg = << >>
    /\ nin = << >>
    /\ nres = << >>

\* MFField(pack_str).putm(buf, offset, value, mask)
CallPutm ==
    /\ npc = "idle"
    /\ \E pack_str \in {MF_PACK_STRING_BE16, MF_PACK_STRING_BE64},
          b \in NxBufs, off \in 0..MaxOff :
       \E value \in SomeValues(pack_str), mask \in ValuesOf(pack_str) :
          /\ nin' = [pack_str |-> pack_str, buf |-> b, offset |-> off,
                     value |-> value, mask |-> mask]
          /\ nres' = MFPutm(MFField(pack_str), b, off, value, mask)
    /\ npc' = "putm"
    /\ UNCHANGED <<mf_fields, first_reg>>
    /\ UNCHANGED ipv6_vars

\* NXMatch(header) and its accessors
CallNXMatch ==
    /\ npc = "idle"
    /\ \E header \in HeaderWords :
          /\ nin' = [header |-> header]
          /\ nres' = [vendor |-> NXMVendor(header), field |-> NXMField(header),
                      type |-> NXMType(header), hasmask |-> NXMHasmask(header),
                      length |-> NXMLength(header)]
    /\ npc' = "nxmatch"
    /\ UNCHANGED <<mf_fields, first_reg>>
    /\ UNCHANGED ipv6_vars

\* serialize_nxm_match(rule, buf, offset)
CallSerialize ==
    /\ npc = "idle"
    /\ \E rule \in Rules, b \in NxBufs, off \in 0..MaxOff :
          /\ nin' = [rule |-> rule, buf |-> b, offset |-> off]
          /\ nres' = SerializeNxmMatch(mf_fields, rule, b, off)
    /\ npc' = "serialize"
    /\ UNCHANGED <<mf_fields, first_reg>>
    /\ UNCHANGED ipv6_vars

NextNXM ==
    \/ CallPutm
    \/ CallNXMatch
    \/ CallSerialize

InitMatch == InitIPv6 /\ InitNXMLoaded
SpecNXM == InitMatch /\ [][NextNXM]_vars

\* a class is decorated with _register_make while modules are loaded
Register ==
    /\ \E cls \in MFClasses, hs \in SeqsUpTo(WireIds, MaxHeaders) \cup {NoneData} :
          LET r == RegisterMake(mf_fields, cls, hs) IN
          /\ nin' = [cls |-> cls, nxm_headers |-> hs, before |-> mf_fields]
          /\ nres' = [ok |-> r.ok, made |-> NoField]
          /\ mf_fields' = r.fields
          /\ first_reg' = [k \in DOMAIN r.fields |->
                              IF k \in DOMAIN first_reg THEN first_reg[k] ELSE cls]
    /\ npc' = "register"
    /\ UNCHANGED ipv6_vars

\* mf_from_nxm_header(nxm_header)
Lookup ==
    /\ \E nxm_header \in WireIds \cup {0} :
          /\ nin' = [cls |-> "None", nxm_headers |-> << nxm_header >>,
                     before |-> mf_fields]
          /\ nres' = [ok |-> TRUE, made |-> MfFromNxmHeader(mf_fields, nxm_header)]
    /\ npc' = "lookup"
    /\ UNCHANGED <<mf_fields, first_reg>>
    /\ UNCHANGED ipv6_vars

NextRegistry ==
    \/ Register
    \/ Lookup

InitLoading == InitIPv6 /\ InitRegistry
SpecRegistry == InitLoading /\ [][NextRegistry]_vars

-----------------------------------------------------------------------------
(* Properties of nx_match *)

\* byte k (0-based) of a value's big-endian bytes
BEByte(v, k) == IF k % 2 = 0 THEN v[k \div 2 + 1] \div 256 ELSE v[k \div 2 + 1] % 256

\* the buffer holds the value's bytes from offset off on
HoldsAt(b, off, v) ==
    /\ Len(b) >= off + 2 * Len(v)
    /\ \A k \in 0..(2 * Len(v) - 1) : b[off + k + 1] = BEByte(v, k)

\* the bytes of before outside [off, off + len) are those of after
FrameKept(before, after, off, len) ==
    /\ Len(after) >= Len(before)
    /\ \A i \in 1..Len(before) : (i <= off \/ i > off + len) => after[i] = before[i]

\* C4: the put policy of a field of n bytes.  putm writes nothing and
\* returns 0 for a mask of 0; writes the value's n bytes and returns n for a
\* mask of all ones; writes the value then the mask, 2n bytes, and returns
\* 2n for any other mask.  No byte the buffer held outside
\* [offset, offset + returned length) is changed, and the buffer ends where
\* it did or at the end of what was written.
C4_PutPolicy ==
    npc = "putm" =>
        LET n == CalcSize(nin.pack_str)
            off == nin.offset
        IN /\ IsZero(nin.mask) => nres.len = 0 /\ nres.buf = nin.buf
           /\ (\A i \in 1..Len(nin.mask) : nin.mask[i] = 65535) =>
                 /\ nres.len = n
                 /\ HoldsAt(nres.buf, off, nin.value)
           /\ ~IsZero(nin.mask) /\ (\E i \in 1..Len(nin.mask) : nin.mask[i] # 65535) =>
                 /\ nres.len = 2 * n
                 /\ HoldsAt(nres.buf, off, nin.value)
                 /\ HoldsAt(nres.buf, off + n, nin.mask)
           /\ FrameKept(nin.buf, nres.buf, off, nres.len)
           /\ nres.len # 0 => Len(nres.buf) = Max(Len(nin.buf), off + nres.len)

\* C4's case: an 8-byte field with the mask 0xff00 is written as 16 bytes
\* inside a longer buffer
C4_Witness ==
    /\ npc = "putm"
    /\ nin.pack_str = MF_PACK_STRING_BE64
    /\ nin.mask = <<0, 0, 0, 65280>>
    /\ nin.offset = 1
    /\ Len(nin.buf) = 40
    /\ nres.len = 16

\* C5: the accessors of an NXM header word w: vendor is bits 31-16, field is
\* bits 15-9, that is (w >> 9) & 0x7f, hasmask is bit 8, length is bits 7-0.
C5_HeaderDecomposition ==
    npc = "nxmatch" =>
        /\ nres.vendor = nin.header \div 65536
        /\ nres.field = (nin.header \div 512) % 128
        /\ nres.hasmask = (nin.header \div 256) % 2
        /\ nres.length = nin.header % 256

\* what the accessors do hold of every word: field is (w >> 9) modulo 127
C5_AsCoded ==
    npc = "nxmatch" =>
        /\ nres.vendor = nin.header \div 65536
        /\ nres.field = (nin.header \div 512) % 127
        /\ nres.hasmask = (nin.header \div 256) % 2
        /\ nres.length = nin.header % 256

\* the entries serialize_nxm_match is to emit for a rule, in order
InPortEntry(rule) ==
    IF (rule.wildcards % 2) = 0
    THEN PackU32(NXM_OF_IN_PORT) \o PackLimbs(rule.in_port) ELSE << >>
TunIdEntry(rule) ==
    IF IsZero(rule.tun_id_mask) THEN << >>
    ELSE IF \A i \in 1..4 : rule.tun_id_mask[i] = 65535
    THEN PackU32(NXM_NX_TUN_ID) \o PackLimbs(rule.tun_id)
    ELSE PackU32(NXM_NX_TUN_ID_W) \o PackLimbs(rule.tun_id)
           \o PackLimbs(rule.tun_id_mask)

\* C6: serialize_nxm_match emits the in-port entry, then the tunnel-id
\* entry, from the start offset on; returns the number of bytes of these
\* entries; and then writes the 0 to 7 zero bytes that take the offset to
\* the next multiple of 8.  Nothing before the start offset is changed.
\* round_up takes 5 to 8: 5 bytes of entries from offset 0 are followed by
\* 3 zero bytes.
C6_MatchPadding ==
    /\ RoundUp(5) - 5 = 3
    /\ npc = "serialize" /\ nres.ok =>
          LET emitted == InPortEntry(nin.rule) \o TunIdEntry(nin.rule)
              end == nin.offset + Len(emitted)
              pad == (8 - (end % 8)) % 8
          IN /\ nres.match_len = Len(emitted)
             /\ Len(nres.buf) = Max(Len(nin.buf), end + pad)
             /\ SubSeq(nres.buf, nin.offset + 1, end) = emitted
             /\ \A i \in (end + 1)..(end + pad) : nres.buf[i] = 0
             /\ (end + pad) % 8 = 0
             /\ FrameKept(nin.buf, nres.buf, nin.offset, Len(emitted) + pad)

\* C6's case: both entries, the tunnel id masked: 6 + 20 bytes from offset 0
\* inside a longer buffer, and 6 zero bytes up to offset 32
C6_Witness ==
    /\ npc = "serialize"
    /\ nres.ok
    /\ nin.offset = 0
    /\ Len(nin.buf) = 40
    /\ nres.match_len = 26
    /\ SubSeq(nres.buf, 27, 32) = Zeros(6)
    /\ nres.buf[33] = 170

\* C9: the registry keeps the first registration of every identifier.  Every
\* identifier maps to the class that first registered it; a registration
\* that names an identifier present before it fails; no entry is ever
\* changed or removed; the lookup of an identifier that is not registered
\* gives None.
C9_FirstRegistrationKept ==
    /\ DOMAIN mf_fields = DOMAIN first_reg
    /\ \A k \in DOMAIN mf_fields : mf_fields[k] = first_reg[k]
    /\ npc = "register" =>
          /\ \A k \in DOMAIN nin.before :
                k \in DOMAIN mf_fields /\ mf_fields[k] = nin.before[k]
          /\ nin.nxm_headers # NoneData
               /\ (\E i \in 1..Len(nin.nxm_headers) :
                      nin.nxm_headers[i] \in DOMAIN nin.before)
               => ~nres.ok
    /\ npc = "lookup" /\ nin.nxm_headers[1] \notin DOMAIN mf_fields
          => nres.made = NoField
    /\ npc = "lookup" /\ nin.nxm_headers[1] \in DOMAIN mf_fields
          => nres.made.cls = first_reg[nin.nxm_headers[1]]

\* C9's case: a class named an identifier that another had registered; the
\* call failed and the entry is still the first class's
C9_Witness ==
    /\ npc = "register"
    /\ ~nres.ok
    /\ nin.cls = "MFOther"
    /\ nin.nxm_headers = << NXM_NX_TUN_ID_W, NXM_NX_TUN_ID >>
    /\ NXM_NX_TUN_ID \in DOMAIN nin.before
    /\ NXM_NX_TUN_ID_W \notin DOMAIN nin.before
    /\ mf_fields[NXM_NX_TUN_ID] = "MFTunId"
    /\ mf_fields[NXM_NX_TUN_ID_W] = "MFOther"

====
